---- MODULE Spec2Model ----
(***************************************************************************)
(* State-machine model of the alpha models and the universe selection      *)
(* model under Algorithm.Python/Alphas.  Each algorithm is a set of        *)
(* synchronous callbacks the host engine (LEAN) invokes; the host's part   *)
(* (which securities are active, what History returns, which bars a slice  *)
(* holds) is the nondeterministic input of every callback.                 *)
(*                                                                         *)
(* prog names the algorithm the host runs in a behaviour.  A callback is   *)
(* one action: it reads its inputs, records them in the arg variables,     *)
(* updates the object's fields and records its return value; HostConsume   *)
(* is the host taking the return value before the next call.               *)
(***************************************************************************)
EXTENDS Integers, Sequences, FiniteSets, TLC

VARIABLES
    prog,                \* the algorithm the host is running
    pc,                  \* "idle" | "returned": position of the callback cycle
    \* ---- LowVolatilitySelectionAlphaModel
    lvActive,            \* algorithm.ActiveSecurities.Values, in host order
    lvHist,              \* History result: symbol -> std of its close returns
    lvInsights,          \* Update's return value
    lvRaised,            \* Update ended in an exception
    \* ---- MeanReversionLunchBreakAlphaModel
    lbHour,              \* algorithm.Time.hour
    lbActive,            \* algorithm.ActiveSecurities.Values, in host order
    lbInsights,          \* Update's return value
    lbRaised,            \* Update ended in a ZeroDivisionError
    \* ---- RebalancingTripleLeveragedETFAlphaModel
    ETFgroups,           \* self.ETFgroups
    etfDate,             \* self.date
    etfDay,              \* algorithm.Time, as a day number
    etfCalls,            \* number of Update calls so far
    etfInsights,         \* Update's return value
    \* ---- MagicFormulaAlphaModel
    symbolDataBySymbol,  \* self.symbolDataBySymbol: symbol -> SymbolData
    subscriptions,       \* host SubscriptionManager: registered <<symbol, consolidator>>
    resolved,            \* consolidators the host has created so far
    alAdded,             \* changes.AddedSecurities, as symbols
    alRemoved,           \* changes.RemovedSecurities, as symbols
    alHistory,           \* History result: symbol -> number of rows
    alRaised,            \* OnSecuritiesChanged ended in an exception
    \* ---- ShareClassMeanReversionAlphaModel
    scAlpha,             \* self.alpha: <<>> is None, <<q>> a quantity
    scBeta,              \* self.beta
    scSma,               \* self.sma: the window of the indicator
    portfolio,           \* self.portfolio
    period_counter,      \* self.period_counter
    Invested,            \* self.Portfolio.Invested
    scDid,               \* what the last OnData call did
    \* ---- MagicFormulaUniverseSelectionModel
    NumberOfSymbolsCoarse,       \* self.NumberOfSymbolsCoarse
    NumberOfSymbolsFine,         \* self.NumberOfSymbolsFine
    NumberOfSymbolsInPortfolio,  \* self.NumberOfSymbolsInPortfolio
    lastMonth,           \* self.lastMonth
    dollarVolumeBySymbol,\* self.dollarVolumeBySymbol
    symbols,             \* self.symbols
    uCoarse,             \* SelectCoarse's coarse argument
    uMonth,              \* coarse[0].EndTime.month
    uFine,               \* SelectFine's fine argument
    uTime,               \* algorithm.Time, as a day number
    uRet,                \* the return value of the last selection call
    uDid                 \* the branch the last selection call took

lvVars == <<lvActive, lvHist, lvInsights, lvRaised>>
lbVars == <<lbHour, lbActive, lbInsights, lbRaised>>
etfVars == <<ETFgroups, etfDate, etfDay, etfCalls, etfInsights>>

alVars == <<symbolDataBySymbol, subscriptions, resolved, alAdded, alRemoved,
            alHistory, alRaised>>
scVars == <<scAlpha, scBeta, scSma, portfolio, period_counter, Invested, scDid>>

uVars == <<NumberOfSymbolsCoarse, NumberOfSymbolsFine, NumberOfSymbolsInPortfolio,
           lastMonth, dollarVolumeBySymbol, symbols, uCoarse, uMonth, uFine,
           uTime, uRet, uDid>>

vars == <<prog, pc, lvVars, lbVars, etfVars, alVars, scVars, uVars>>

(***************************************************************************)
(* Bounds of the model                                                     *)
(***************************************************************************)
NumSymbols == 3
MaxVol == 3
MaxActive == 2
MaxPrice == 2
MaxGroups == 3
MaxCalls == 3
MaxResolved == 4
MaxSlices == 7

Symbols == 1..NumSymbols

(***************************************************************************)
(* Helpers shared by the callbacks                                         *)
(***************************************************************************)
Min(a, b) == IF a <= b THEN a ELSE b

Range(seq) == {seq[i] : i \in 1..Len(seq)}

Take(seq, n) == SubSeq(seq, 1, Min(n, Len(seq)))

\* Sequences over S of length 0..n
SeqsUpTo(S, n) == UNION {[1..k -> S] : k \in 0..n}

\* Python's sorted(seq, key=...): a stable sort by ascending key, where
\* keys[i] is the key of seq[i]; elements with equal keys keep their order.
\* sorted(..., reverse=True) is the same sort on the negated keys.
SortedByKey(seq, keys) ==
    LET n == Len(seq)
        rank == [i \in 1..n |-> 1 + Cardinality({j \in 1..n :
                        keys[j] < keys[i] \/ (keys[j] = keys[i] /\ j < i)})]
    IN  [k \in 1..n |-> seq[CHOOSE i \in 1..n : rank[i] = k]]

\* Ascending sequence of a set of symbols (pandas orders index levels and
\* unstacked columns by symbol)
RECURSIVE SortedSeq(_)
SortedSeq(S) ==
    IF S = {} THEN <<>>
    ELSE LET m == CHOOSE x \in S : \A y \in S : x <= y
         IN  <<m>> \o SortedSeq(S \ {m})

\* zip(a, b): pairs up to the shorter of the two
Zip(a, b) == [i \in 1..Min(Len(a), Len(b)) |-> <<a[i], b[i]>>]

(***************************************************************************)
(* LowVolatilityStockSelectionAlpha.py                                     *)
(***************************************************************************)
\* self.numberOfStocks, a kwargs parameter (10 by default), at the scale of the
\* model's universe
numberOfStocks == 2

\* A security as Update reads it
LVSecurities == [Symbol : Symbols, HasData : BOOLEAN]

\* ActiveSecurities.Values: any order, no symbol twice
LVActiveLists ==
    {a \in SeqsUpTo(LVSecurities, NumSymbols) :
        \A i, j \in 1..Len(a) : i # j => a[i].Symbol # a[j].Symbol}

\* symbols: the active securities that have data, in host order
LVSymbols(active) ==
    LET withData == SelectSeq(active, LAMBDA s : s.HasData)
    IN  [i \in 1..Len(withData) |-> withData[i].Symbol]

\* algorithm.History(symbols, lookback, resolution): rows for any subset of
\* the requested symbols; the value kept per symbol is what
\* close.pct_change().std() yields for its column
LVHistories(requested) ==
    UNION {[P -> 1..MaxVol] : P \in SUBSET Range(requested)}

\* hist.close.unstack(level=0).pct_change().std().tolist(): one value per
\* column, columns in ascending symbol order
LVStdDev(hist) ==
    LET cols == SortedSeq(DOMAIN hist)
    IN  [i \in 1..Len(cols) |-> hist[cols[i]]]

\* symbolsVol = dict(zip(symbols, stdDev)), as its items in insertion order
LVSymbolsVol(requested, hist) == Zip(requested, LVStdDev(hist))

\* lowVol = dict(sorted(symbolsVol.items(), key=kv[1])[0:number_of_stocks])
LVLowVol(requested, hist) ==
    LET symbolsVol == LVSymbolsVol(requested, hist)
        number_of_stocks == Min(Len(symbolsVol), numberOfStocks)
    IN  Take(SortedByKey(symbolsVol, [i \in 1..Len(symbolsVol) |-> symbolsVol[i][2]]),
             number_of_stocks)

LVInsight(symbol) == [Symbol |-> symbol, Direction |-> "Up"]

\* if hist.empty: return insights
LVSkips(hist) == DOMAIN hist = {}

\* hist.close of an empty frame raises AttributeError
LVRaises(hist) == ~LVSkips(hist) /\ DOMAIN hist = {}

LVUpdateResult(active, hist) ==
    IF LVSkips(hist) \/ LVRaises(hist) THEN <<>>
    ELSE LET lowVol == LVLowVol(LVSymbols(active), hist)
         IN  [i \in 1..Len(lowVol) |-> LVInsight(lowVol[i][1])]

LVUpdate ==
    /\ prog = "LowVol"
    /\ pc = "idle"
    /\ \E active \in LVActiveLists :
         \E hist \in LVHistories(LVSymbols(active)) :
            /\ lvActive' = active
            /\ lvHist' = hist
            /\ lvInsights' = LVUpdateResult(active, hist)
            /\ lvRaised' = LVRaises(hist)
    /\ pc' = "returned"
    /\ UNCHANGED <<prog, lbVars, etfVars, alVars, scVars, uVars>>

LVConsume ==
    /\ prog = "LowVol"
    /\ pc = "returned"
    /\ pc' = "idle"
    /\ lvActive' = <<>>
    /\ lvHist' = <<>>
    /\ lvInsights' = <<>>
    /\ lvRaised' = FALSE
    /\ UNCHANGED <<prog, lbVars, etfVars, alVars, scVars, uVars>>

(***************************************************************************)
(* MeanReversionLunchBreakAlpha.py                                         *)
(***************************************************************************)
Hours == {11, 12, 13}

\* A security as Update reads it; a security without data has no prices
LBSecurities ==
    {[Symbol |-> s, HasData |-> FALSE, Open |-> 0, Close |-> 0] : s \in Symbols}
    \cup [Symbol : Symbols, HasData : {TRUE}, Open : 0..MaxPrice, Close : 0..MaxPrice]

LBActiveLists ==
    {a \in SeqsUpTo(LBSecurities, MaxActive) :
        \A i, j \in 1..Len(a) : i # j => a[i].Symbol # a[j].Symbol}

\* Variant of LBConsidered: the zero-open check is missing
LBConsideredNoOpenCheck(security) == security.HasData

\* The securities the loop computes a return for
LBConsidered(security) == security.HasData /\ security.Open # 0

\* security.Close / open - 1 as the fraction <<Close - open, open>>
LBReturn(security) == <<security.Close - security.Open, security.Open>>

\* value > 0 for a fraction with a non-zero denominator
LBPositive(value) == value[1] * value[2] > 0

\* symbolsReturn, as its items in insertion order
LBSymbolsReturn(active) ==
    LET considered == SelectSeq(active, LBConsidered)
    IN  [i \in 1..Len(considered) |->
            <<considered[i].Symbol, LBReturn(considered[i])>>]

LBInsight(symbol, direction) == [Symbol |-> symbol, Direction |-> direction]

\* The loop over symbolsReturn.items(): both branches of its body return
LBEmit(symbolsReturn) ==
    IF Len(symbolsReturn) = 0 THEN <<>>
    ELSE IF LBPositive(symbolsReturn[1][2])
         THEN <<LBInsight(symbolsReturn[1][1], "Down")>>
         ELSE <<LBInsight(symbolsReturn[1][1], "Up")>>

\* A division by zero is reached when a considered security has a zero open
LBDividesByZero(active) ==
    \E i \in 1..Len(active) : LBConsidered(active[i]) /\ active[i].Open = 0

LBUpdateResult(hour, active) ==
    IF hour # 12 THEN <<>>
    ELSE IF LBDividesByZero(active) THEN <<>>
    ELSE LBEmit(LBSymbolsReturn(active))

LBUpdate ==
    /\ prog = "Lunch"
    /\ pc = "idle"
    /\ \E hour \in Hours, active \in LBActiveLists :
            /\ lbHour' = hour
            /\ lbActive' = active
            /\ lbInsights' = LBUpdateResult(hour, active)
            /\ lbRaised' = (hour = 12 /\ LBDividesByZero(active))
    /\ pc' = "returned"
    /\ UNCHANGED <<prog, lvVars, etfVars, alVars, scVars, uVars>>

LBConsume ==
    /\ prog = "Lunch"
    /\ pc = "returned"
    /\ pc' = "idle"
    /\ lbHour' = 11
    /\ lbActive' = <<>>
    /\ lbInsights' = <<>>
    /\ lbRaised' = FALSE
    /\ UNCHANGED <<prog, lvVars, etfVars, alVars, scVars, uVars>>

(***************************************************************************)
(* TripleLeveragedETFPairVolatilityDecayAlpha.py                           *)
(***************************************************************************)
\* ETFGroup(ultraLong, ultraShort)
ETFGroup(ultraLong, ultraShort) ==
    [ultraLong |-> ultraLong, ultraShort |-> ultraShort]

\* Initialize: the 3X ETF pairs, in ticker order
InitializeGroups ==
    LET ultraLong == <<"UGLD", "LABU", "SOXL">>
        ultraShort == <<"DGLD", "LABD", "SOXS">>
    IN  [i \in 1..Len(ultraLong) |-> ETFGroup(ultraLong[i], ultraShort[i])]

\* The constructor takes any list of groups
ETFGroupLists == SeqsUpTo(Range(InitializeGroups), MaxGroups)

\* datetime.min.date, the value __init__ stores in self.date
DateMin == "datetime.min.date"

ETFInsight(symbol, direction) ==
    [Symbol |-> symbol, PeriodDays |-> 1, Direction |-> direction, Magnitude |-> 0]

\* Variant of ETFGroupInsights: the ultra-long ETF is predicted to rise
ETFGroupInsightsLongUp(group) ==
    <<ETFInsight(group.ultraLong, "Up"), ETFInsight(group.ultraShort, "Down")>>

\* The insights of one group, in the order Update appends them
ETFGroupInsights(group) ==
    <<ETFInsight(group.ultraLong, "Down"), ETFInsight(group.ultraShort, "Down")>>

RECURSIVE ETFUpdateResult(_)
ETFUpdateResult(groups) ==
    IF groups = <<>> THEN <<>>
    ELSE ETFGroupInsights(Head(groups)) \o ETFUpdateResult(Tail(groups))

\* Update(algorithm, data): the day is the host's, and is not read
ETFUpdate ==
    /\ prog = "ETF"
    /\ pc = "idle"
    /\ etfCalls < MaxCalls
    /\ \E day \in etfDay..(etfDay + 1) :
            etfDay' = day
    /\ etfCalls' = etfCalls + 1
    /\ etfInsights' = ETFUpdateResult(ETFgroups)
    /\ pc' = "returned"
    /\ UNCHANGED <<prog, ETFgroups, etfDate, lvVars, lbVars, alVars, scVars, uVars>>

ETFConsume ==
    /\ prog = "ETF"
    /\ pc = "returned"
    /\ pc' = "idle"
    /\ etfInsights' = <<>>
    /\ UNCHANGED <<prog, ETFgroups, etfDate, etfDay, etfCalls,
                   lvVars, lbVars, alVars, scVars, uVars>>

(***************************************************************************)
(* GreenblattMagicFormulaAlgorithm.py: MagicFormulaAlphaModel              *)
(***************************************************************************)
\* kwargs default of lookback
lookback == 1

\* SymbolData after RegisterIndicators and WarmUpIndicators: its consolidator
\* and the samples its ROC has received
SymbolData(symbol, consolidator, rows) ==
    [Symbol |-> symbol, Consolidator |-> consolidator, Samples |-> rows]

\* SecurityChanges: a security is added or removed, not both
ALChanges ==
    {c \in [Added : SUBSET Symbols, Removed : SUBSET Symbols] :
        c.Added \cap c.Removed = {}}

\* algorithm.History(symbols, lookback, resolution): up to lookback rows for
\* any subset of the requested symbols
ALHistories(requested) == UNION {[P -> 1..lookback] : P \in SUBSET requested}

\* The first loop: pop every removed symbol
ALAfterRemoval(data, removed) ==
    [s \in (DOMAIN data) \ removed |-> data[s]]

\* SymbolData.RemoveConsolidators of every popped entry
ALUnsubscribed(data, subs, removed) ==
    subs \ {<<s, data[s].Consolidator>> : s \in (DOMAIN data) \cap removed}

\* Variant of ALFresh: the "symbol not in self.symbolDataBySymbol" test is missing
ALFreshAll(data, history) == SortedSeq(DOMAIN history)

\* The tickers of the second loop that get a new SymbolData, in the order of
\* history.index.levels[0]
ALFresh(data, history) ==
    SortedSeq({s \in DOMAIN history : s \notin DOMAIN data})

\* The second loop: create, register and warm up the new entries; the host
\* resolves a new consolidator per call of ResolveConsolidator
ALAfterAdding(data, history, firstId) ==
    LET fresh == ALFresh(data, history)
    IN  [s \in (DOMAIN data) \cup Range(fresh) |->
            IF s \in Range(fresh)
            THEN LET i == CHOOSE k \in 1..Len(fresh) : fresh[k] = s
                 IN  SymbolData(s, firstId + i, history[s])
            ELSE data[s]]

ALSubscribed(data, subs, history, firstId) ==
    LET fresh == ALFresh(data, history)
    IN  subs \cup {<<fresh[i], firstId + i>> : i \in 1..Len(fresh)}

\* Variant of ALSkips: the guard is missing
ALSkipsNever(history) == FALSE

\* if history.empty: return
ALSkips(history) == DOMAIN history = {}

\* history.index.levels of an empty frame raises AttributeError
ALRaises(history) == ~ALSkips(history) /\ DOMAIN history = {}

OnSecuritiesChanged ==
    /\ prog = "MagicAlpha"
    /\ pc = "idle"
    /\ \E changes \in ALChanges :
         \E history \in ALHistories(changes.Added) :
            LET kept == ALAfterRemoval(symbolDataBySymbol, changes.Removed)
                subs == ALUnsubscribed(symbolDataBySymbol, subscriptions, changes.Removed)
                fresh == ALFresh(kept, history)
            IN  /\ resolved + Len(fresh) <= MaxResolved
                /\ alAdded' = changes.Added
                /\ alRemoved' = changes.Removed
                /\ alHistory' = history
                /\ alRaised' = ALRaises(history)
                /\ IF ALSkips(history) \/ ALRaises(history)
                   THEN /\ symbolDataBySymbol' = kept
                        /\ subscriptions' = subs
                        /\ resolved' = resolved
                   ELSE /\ symbolDataBySymbol' = ALAfterAdding(kept, history, resolved)
                        /\ subscriptions' = ALSubscribed(kept, subs, history, resolved)
                        /\ resolved' = resolved + Len(fresh)
    /\ pc' = "returned"
    /\ UNCHANGED <<prog, lvVars, lbVars, etfVars, scVars, uVars>>

ALConsume ==
    /\ prog = "MagicAlpha"
    /\ pc = "returned"
    /\ pc' = "idle"
    /\ alAdded' = {}
    /\ alRemoved' = {}
    /\ alHistory' = <<>>
    /\ alRaised' = FALSE
    /\ UNCHANGED <<prog, symbolDataBySymbol, subscriptions, resolved,
                   lvVars, lbVars, etfVars, scVars, uVars>>

(***************************************************************************)
(* testAlpha.py: ShareClassMeanReversionAlphaModel                         *)
(***************************************************************************)
\* The period of SimpleMovingAverage(20) and SetWarmup(20), at the scale of
\* the model's runs
SMAPeriod == 3

\* Close prices of a bar, and the quantities CalculateOrderQuantity yields
Closes == {1, 2}
Quantities == {1, 2}

\* sma.Update: the window keeps the last SMAPeriod values
SMAUpdate(window, value) ==
    LET w == Append(window, value)
    IN  IF Len(w) > SMAPeriod THEN Tail(w) ELSE w

\* sma.IsReady
SMAIsReady(window) == Len(window) >= SMAPeriod

RECURSIVE SumSeq(_)
SumSeq(seq) == IF seq = <<>> THEN 0 ELSE Head(seq) + SumSeq(Tail(seq))

\* value >= sma.Current.Value, the mean of the window
AtOrAboveSMA(value, window) == value * Len(window) >= SumSeq(window)

\* position_value = alpha * Close[0] - beta * Close[1]
PositionValue(alpha, beta, close0, close1) == alpha * close0 - beta * close1

\* crossed_mean(): pf[counter] and pf[counter - 1] of the 0-based Python list
\* are pf[counter + 1] and pf[counter] here
crossed_mean(pf, counter, window) ==
    \/ (AtOrAboveSMA(pf[counter + 1], window) /\ ~AtOrAboveSMA(pf[counter], window))
    \/ (~AtOrAboveSMA(pf[counter + 1], window) /\ AtOrAboveSMA(pf[counter], window))

\* torf of OnData
Torf(pf, counter, window) ==
    IF counter >= 1 THEN crossed_mean(pf, counter, window) ELSE TRUE

\* A slice: per symbol of self.symbols the close of its bar, 0 when the slice
\* holds no bar for it
Slices == [1..2 -> Closes \cup {0}]

\* data.Bars.ContainsKey(symbol) for both symbols
HasBothBars(data) == data[1] # 0 /\ data[2] # 0

\* CalculateOrderQuantity is called only while alpha and beta are None
OrderQuantities(alpha, beta) ==
    IF alpha = <<>> /\ beta = <<>>
    THEN Quantities \X Quantities
    ELSE {<<alpha[1], beta[1]>>}

OnData ==
    /\ prog = "ShareClass"
    /\ Len(portfolio) < MaxSlices
    /\ \E data \in Slices :
         IF ~HasBothBars(data)
         THEN /\ scDid' = "skipped"
              /\ UNCHANGED <<scAlpha, scBeta, scSma, portfolio, period_counter, Invested>>
         ELSE \E q \in OrderQuantities(scAlpha, scBeta) :
              LET position_value == PositionValue(q[1], q[2], data[1], data[2])
                  window == SMAUpdate(scSma, position_value)
                  pf == Append(portfolio, position_value)
              IN  /\ scAlpha' = <<q[1]>>
                  /\ scBeta' = <<q[2]>>
                  /\ scSma' = window
                  /\ portfolio' = pf
                  /\ IF ~SMAIsReady(scSma)
                     THEN /\ scDid' = "warmup"
                          /\ UNCHANGED <<period_counter, Invested>>
                     ELSE /\ period_counter' = period_counter + 1
                          /\ IF ~Invested
                             THEN /\ Invested' = TRUE
                                  /\ scDid' = IF AtOrAboveSMA(position_value, window)
                                              THEN "short" ELSE "long"
                             ELSE IF Torf(pf, period_counter, window)
                                  THEN /\ Invested' = FALSE
                                       /\ scDid' = "liquidate"
                                  ELSE /\ Invested' = Invested
                                       /\ scDid' = "hold"
    /\ UNCHANGED <<prog, pc, lvVars, lbVars, etfVars, alVars, uVars>>

(***************************************************************************)
(* GreenblattMagicFormulaAlgorithm.py: MagicFormulaUniverseSelectionModel  *)
(***************************************************************************)
Months == {1, 2}
DollarVolumes == {10, 20}

\* A coarse element that passes the three conditions of SelectCoarse
CoarsePass(symbol, dollarVolume) ==
    [Symbol |-> symbol, HasFundamentalData |-> TRUE, Volume |-> 1, Price |-> 1,
     DollarVolume |-> dollarVolume]

\* The coarse elements of a symbol: passing with any dollar volume, or failing
\* one condition with the highest dollar volume
CoarseElements(symbol) ==
    {CoarsePass(symbol, d) : d \in DollarVolumes}
    \cup {[CoarsePass(symbol, 20) EXCEPT !.HasFundamentalData = FALSE],
          [CoarsePass(symbol, 20) EXCEPT !.Volume = 0],
          [CoarsePass(symbol, 20) EXCEPT !.Price = 0]}

\* The coarse lists of the host: one element per symbol of a subset
CoarseLists ==
    UNION {{[i \in 1..Cardinality(P) |-> e[SortedSeq(P)[i]]] :
                e \in {f \in [P -> UNION {CoarseElements(x) : x \in P}] :
                            \A x \in P : f[x].Symbol = x}} :
           P \in SUBSET Symbols}

\* Variant of CoarseFilter: the volume condition is missing
CoarseFilterNoVolume(x) == x.HasFundamentalData /\ x.Price > 0

CoarseFilter(x) == x.HasFundamentalData /\ x.Volume > 0 /\ x.Price > 0

\* sorted(filtered, key=DollarVolume, reverse=True)[:NumberOfSymbolsCoarse]
CoarseTop(coarse, limit) ==
    LET filtered == SelectSeq(coarse, CoarseFilter)
    IN  Take(SortedByKey(filtered, [i \in 1..Len(filtered) |-> -filtered[i].DollarVolume]),
             limit)

\* { i.Symbol: i.DollarVolume for i in top }
DollarVolumeOf(top) ==
    [s \in {top[i].Symbol : i \in 1..Len(top)} |->
        top[CHOOSE i \in 1..Len(top) : top[i].Symbol = s /\
                \A j \in 1..Len(top) : top[j].Symbol = s => j <= i].DollarVolume]

\* list(self.dollarVolumeBySymbol.keys()): the symbols of top, in its order
SymbolsOf(top) == [i \in 1..Len(top) |-> top[i].Symbol]

SelectCoarse ==
    /\ prog = "Universe"
    /\ pc = "idle"
    /\ \E coarse \in CoarseLists, month \in Months :
            /\ uCoarse' = coarse
            /\ uMonth' = month
            /\ IF Len(coarse) = 0
               THEN /\ uDid' = "empty"
                    /\ uRet' = symbols
                    /\ UNCHANGED <<lastMonth, dollarVolumeBySymbol, symbols>>
               ELSE IF month = lastMonth
               THEN /\ uDid' = "same month"
                    /\ uRet' = symbols
                    /\ UNCHANGED <<lastMonth, dollarVolumeBySymbol, symbols>>
               ELSE LET top == CoarseTop(coarse, NumberOfSymbolsCoarse)
                    IN  /\ uDid' = "recomputed"
                        /\ lastMonth' = month
                        /\ dollarVolumeBySymbol' = DollarVolumeOf(top)
                        /\ symbols' = SymbolsOf(top)
                        /\ uRet' = SymbolsOf(top)
    /\ pc' = "returned"
    /\ UNCHANGED <<prog, NumberOfSymbolsCoarse, NumberOfSymbolsFine,
                   NumberOfSymbolsInPortfolio, uFine, uTime,
                   lvVars, lbVars, etfVars, alVars, scVars>>

\* A fine element that passes the four QC500 conditions of SelectFine
FinePass(sector, ev, roic) ==
    [CountryId |-> "USA", PrimaryExchangeID |-> "NYS", IPODate |-> 20,
     BasicAverageShares |-> 100000000, BasicEPS |-> 5, PERatio |-> 2,
     IndustryTemplateCode |-> sector, EVToEBITDA |-> ev, ROIC |-> roic]

\* The fundamentals a symbol may have: passing in two sectors with any
\* ratios, passing on the other exchange or in a sector SelectFine does not
\* list, or failing one condition at its boundary with the best ratios
FineProfiles ==
    {FinePass(sector, ev, roic) : sector \in {"N", "B"}, ev \in 1..2, roic \in 1..2}
    \cup {[FinePass("N", 1, 2) EXCEPT !.PrimaryExchangeID = "NAS"],
          FinePass("X", 2, 1),
          [FinePass("N", 2, 1) EXCEPT !.CountryId = "CAN"],
          [FinePass("N", 2, 1) EXCEPT !.PrimaryExchangeID = "ASE"],
          [FinePass("N", 2, 1) EXCEPT !.IPODate = 21],
          [FinePass("N", 2, 1) EXCEPT !.PERatio = 1]}

FineElement(symbol, p) ==
    [Symbol |-> symbol, CountryId |-> p.CountryId,
     PrimaryExchangeID |-> p.PrimaryExchangeID, IPODate |-> p.IPODate,
     BasicAverageShares |-> p.BasicAverageShares, BasicEPS |-> p.BasicEPS,
     PERatio |-> p.PERatio, IndustryTemplateCode |-> p.IndustryTemplateCode,
     EVToEBITDA |-> p.EVToEBITDA, ROIC |-> p.ROIC]

\* A fine list of the host: the fundamentals f of the symbols P, a subset of
\* the symbols the coarse selection returned
FineList(P, f) ==
    LET order == SortedSeq(P)
    IN  [i \in 1..Len(order) |-> FineElement(order[i], f[order[i]])]

\* Variant of FineFilter: an IPO exactly 180 days ago passes
FineFilterIPOAtLeast(x, time) ==
    /\ x.CountryId = "USA"
    /\ (x.PrimaryExchangeID = "NYS" \/ x.PrimaryExchangeID = "NAS")
    /\ time - x.IPODate >= 180
    /\ x.BasicAverageShares * x.BasicEPS * x.PERatio > 500000000

\* The QC500 conditions; dates are day numbers
FineFilter(x, time) ==
    /\ x.CountryId = "USA"
    /\ (x.PrimaryExchangeID = "NYS" \/ x.PrimaryExchangeID = "NAS")
    /\ time - x.IPODate > 180
    /\ x.BasicAverageShares * x.BasicEPS * x.PERatio > 500000000

\* 2^n
RECURSIVE Pow2(_)
Pow2(n) == IF n = 0 THEN 1 ELSE 2 * Pow2(n - 1)

\* 2^n modulo m
RECURSIVE PowMod2(_, _)
PowMod2(n, m) == IF n = 0 THEN 1 % m ELSE (2 * PowMod2(n - 1, m)) % m

\* The binary exponent of the double nearest to n / d: the largest a with
\* 2^a <= n / d (n, d > 0)
RECURSIVE Log2Floor(_, _)
Log2Floor(n, d) ==
    IF n < d THEN Log2Floor(2 * n, d) - 1
    ELSE IF n < 2 * d THEN 0
    ELSE Log2Floor(n, 2 * d) + 1

\* percent = float(NumberOfSymbolsFine / count) is the double nearest to the
\* quotient: a 53-bit significand at exponent a = Log2Floor(limit, count).
\* With s = 52 - a it equals limit / count + e / (count * 2^s), where e is
\* the signed rounding error below: r is the remainder of limit * 2^s by
\* count, dropped when under half of count and completed to count otherwise.
PercentError(limit, count) ==
    LET s == 52 - Log2Floor(limit, count)
        r == ((limit % count) * PowMod2(s, count)) % count
    IN  IF 2 * r < count THEN -r ELSE count - r

\* ceil(len(value) * percent), in double arithmetic.  When count does not
\* divide len * limit the rounding errors are too small to move the product
\* across an integer and the result is the ceiling of the quotient.  When it
\* does, the quotient is an integer k and the product is
\* k + len * e / (count * 2^s), which rounds to a double above k, so that
\* ceil yields k + 1, exactly when the excess is more than half the spacing
\* 2^(b - 52) of the doubles at k, b = Log2Floor(k, 1):
\* 2 * len * e > count * 2^(b - a).
SectorQuota(len, limit, count) ==
    IF len = 0 \/ limit = 0 THEN 0
    ELSE IF (len * limit) % count # 0 THEN (len * limit) \div count + 1
    ELSE LET k == (len * limit) \div count
             a == Log2Floor(limit, count)
             b == Log2Floor(k, 1)
         IN  IF 2 * len * PercentError(limit, count) > count * Pow2(b - a)
             THEN k + 1
             ELSE k

\* myDict[key]: the sector's stocks by descending dollar volume, cut
SectorTop(filteredFine, key, limit, dv) ==
    LET value == SelectSeq(filteredFine, LAMBDA x : x.IndustryTemplateCode = key)
        sorted == SortedByKey(value, [i \in 1..Len(value) |-> -dv[value[i].Symbol]])
    IN  Take(sorted, SectorQuota(Len(value), limit, Len(filteredFine)))

SectorKeys == <<"N", "M", "U", "T", "B", "I">>

\* list(chain.from_iterable(myDict.values()))[:NumberOfSymbolsCoarse]
RECURSIVE ChainSectors(_, _, _, _)
ChainSectors(filteredFine, keys, limit, dv) ==
    IF keys = <<>> THEN <<>>
    ELSE SectorTop(filteredFine, Head(keys), limit, dv)
            \o ChainSectors(filteredFine, Tail(keys), limit, dv)

TopFine(filteredFine, limitFine, limitCoarse, dv) ==
    Take(ChainSectors(filteredFine, SectorKeys, limitFine, dv), limitCoarse)

\* sorted(topFine, key=EVToEBITDA, reverse=True)
SortedByEVToEBITDA(topFine) ==
    SortedByKey(topFine, [i \in 1..Len(topFine) |-> -topFine[i].EVToEBITDA])

\* Variant of SortedByROIC: reverse=True
SortedByROICDescending(sortedByEVToEBITDA, limit) ==
    LET subset == Take(sortedByEVToEBITDA, limit)
    IN  SortedByKey(subset, [i \in 1..Len(subset) |-> -subset[i].ROIC])

\* sorted(sortedByEVToEBITDA[:NumberOfSymbolsFine], key=ROIC, reverse=False)
SortedByROIC(sortedByEVToEBITDA, limit) ==
    LET subset == Take(sortedByEVToEBITDA, limit)
    IN  SortedByKey(subset, [i \in 1..Len(subset) |-> subset[i].ROIC])

\* top = sortedByROIC[:NumberOfSymbolsInPortfolio]
FineTop(filteredFine, dv) ==
    LET topFine == TopFine(filteredFine, NumberOfSymbolsFine, NumberOfSymbolsCoarse, dv)
        sortedByROIC == SortedByROIC(SortedByEVToEBITDA(topFine), NumberOfSymbolsFine)
    IN  Take(sortedByROIC, NumberOfSymbolsInPortfolio)

SelectFine ==
    /\ prog = "Universe"
    /\ pc = "idle"
    /\ \E P \in SUBSET Range(symbols) : \E f \in [P -> FineProfiles] :
         LET fine == FineList(P, f)
             filteredFine == SelectSeq(fine, LAMBDA x : FineFilter(x, uTime))
         IN  /\ uFine' = fine
             /\ IF Len(filteredFine) = 0
                THEN /\ uDid' = "fine empty"
                     /\ uRet' = <<>>
                     /\ symbols' = symbols
                ELSE /\ uDid' = "fine"
                     /\ symbols' = SymbolsOf(FineTop(filteredFine, dollarVolumeBySymbol))
                     /\ uRet' = symbols'
    /\ pc' = "returned"
    /\ UNCHANGED <<prog, NumberOfSymbolsCoarse, NumberOfSymbolsFine,
                   NumberOfSymbolsInPortfolio, lastMonth, dollarVolumeBySymbol,
                   uCoarse, uMonth, uTime, lvVars, lbVars, etfVars, alVars, scVars>>

UConsume ==
    /\ prog = "Universe"
    /\ pc = "returned"
    /\ pc' = "idle"
    /\ uCoarse' = <<>>
    /\ uMonth' = 1
    /\ uFine' = <<>>
    /\ uRet' = <<>>
    /\ uDid' = "none"
    /\ UNCHANGED <<prog, NumberOfSymbolsCoarse, NumberOfSymbolsFine,
                   NumberOfSymbolsInPortfolio, lastMonth, dollarVolumeBySymbol,
                   symbols, uTime, lvVars, lbVars, etfVars, alVars, scVars>>

(***************************************************************************)
(* Initial states and specifications                                       *)
(***************************************************************************)
InitLowVolVars ==
    /\ lvActive = <<>>
    /\ lvHist = <<>>
    /\ lvInsights = <<>>
    /\ lvRaised = FALSE

InitLunchVars ==
    /\ lbHour = 11
    /\ lbActive = <<>>
    /\ lbInsights = <<>>
    /\ lbRaised = FALSE

\* __init__(ETFgroups) with the groups of Initialize
InitETFVars ==
    /\ ETFgroups = InitializeGroups
    /\ etfDate = DateMin
    /\ etfDay = 0
    /\ etfCalls = 0
    /\ etfInsights = <<>>

\* MagicFormulaAlphaModel.__init__, and a host with no consolidator yet
InitAlphaVars ==
    /\ symbolDataBySymbol = <<>>
    /\ subscriptions = {}
    /\ resolved = 0
    /\ alAdded = {}
    /\ alRemoved = {}
    /\ alHistory = <<>>
    /\ alRaised = FALSE

\* ShareClassMeanReversionAlphaModel.Initialize
InitShareClassVars ==
    /\ scAlpha = <<>>
    /\ scBeta = <<>>
    /\ scSma = <<>>
    /\ portfolio = <<>>
    /\ period_counter = 0
    /\ Invested = FALSE
    /\ scDid = "none"

\* MagicFormulaUniverseSelectionModel.__init__; the three limits (500, 20 and
\* 10 in __init__) are instantiated by each specification at values scaled to
\* the model's universe
InitUniverseVars ==
    /\ lastMonth = -1
    /\ dollarVolumeBySymbol = <<>>
    /\ symbols = <<>>
    /\ uCoarse = <<>>
    /\ uMonth = 1
    /\ uFine = <<>>
    /\ uTime = 201
    /\ uRet = <<>>
    /\ uDid = "none"

InitLimits(coarse, fine, inPortfolio) ==
    /\ NumberOfSymbolsCoarse = coarse
    /\ NumberOfSymbolsFine = fine
    /\ NumberOfSymbolsInPortfolio = inPortfolio

InitLowVol ==
    /\ prog = "LowVol"
    /\ pc = "idle"
    /\ InitLowVolVars /\ InitLunchVars /\ InitETFVars
    /\ InitAlphaVars /\ InitShareClassVars
    /\ InitUniverseVars /\ InitLimits(2, 1, 1)

NextLowVol == LVUpdate \/ LVConsume

SpecLowVol == InitLowVol /\ [][NextLowVol]_vars

InitLunch ==
    /\ prog = "Lunch"
    /\ pc = "idle"
    /\ InitLowVolVars /\ InitLunchVars /\ InitETFVars
    /\ InitAlphaVars /\ InitShareClassVars
    /\ InitUniverseVars /\ InitLimits(2, 1, 1)

NextLunch == LBUpdate \/ LBConsume

SpecLunch == InitLunch /\ [][NextLunch]_vars

\* RebalancingTripleLeveragedETFAlphaModel(groups), for any list of groups
InitETF ==
    /\ prog = "ETF"
    /\ pc = "idle"
    /\ InitLowVolVars /\ InitLunchVars
    /\ InitAlphaVars /\ InitShareClassVars
    /\ InitUniverseVars /\ InitLimits(2, 1, 1)
    /\ ETFgroups \in ETFGroupLists
    /\ etfDate = DateMin
    /\ etfDay = 0
    /\ etfCalls = 0
    /\ etfInsights = <<>>

NextETF == ETFUpdate \/ ETFConsume

SpecETF == InitETF /\ [][NextETF]_vars

InitMagicAlpha ==
    /\ prog = "MagicAlpha"
    /\ pc = "idle"
    /\ InitLowVolVars /\ InitLunchVars /\ InitETFVars
    /\ InitAlphaVars /\ InitShareClassVars
    /\ InitUniverseVars /\ InitLimits(2, 1, 1)

NextMagicAlpha == OnSecuritiesChanged \/ ALConsume

SpecMagicAlpha == InitMagicAlpha /\ [][NextMagicAlpha]_vars

InitShareClass ==
    /\ prog = "ShareClass"
    /\ pc = "idle"
    /\ InitLowVolVars /\ InitLunchVars /\ InitETFVars
    /\ InitAlphaVars /\ InitShareClassVars
    /\ InitUniverseVars /\ InitLimits(2, 1, 1)

NextShareClass == OnData

SpecShareClass == InitShareClass /\ [][NextShareClass]_vars

\* The two callbacks that guard against an empty History result
InitSkip ==
    /\ prog \in {"LowVol", "MagicAlpha"}
    /\ pc = "idle"
    /\ InitLowVolVars /\ InitLunchVars /\ InitETFVars
    /\ InitAlphaVars /\ InitShareClassVars
    /\ InitUniverseVars /\ InitLimits(2, 1, 1)

NextSkip == LVUpdate \/ LVConsume \/ OnSecuritiesChanged \/ ALConsume

SpecSkip == InitSkip /\ [][NextSkip]_vars

\* Coarse selection over months, with a limit of two symbols
InitCoarse ==
    /\ prog = "Universe"
    /\ pc = "idle"
    /\ InitLowVolVars /\ InitLunchVars /\ InitETFVars
    /\ InitAlphaVars /\ InitShareClassVars
    /\ InitUniverseVars /\ InitLimits(2, 1, 1)

NextCoarse == SelectCoarse \/ UConsume

SpecCoarse == InitCoarse /\ [][NextCoarse]_vars

\* The coarse list of a month whose selection the fine selections start from
FineStartCoarse ==
    <<CoarsePass(1, 20), CoarsePass(2, 10), CoarsePass(3, 20), CoarsePass(4, 10)>>

\* Fine selection in the state SelectCoarse leaves for FineStartCoarse, with
\* limits of four, three and two symbols
InitFine ==
    /\ prog = "Universe"
    /\ pc = "idle"
    /\ InitLowVolVars /\ InitLunchVars /\ InitETFVars
    /\ InitAlphaVars /\ InitShareClassVars
    /\ InitLimits(4, 3, 2)
    /\ lastMonth = 1
    /\ dollarVolumeBySymbol = DollarVolumeOf(CoarseTop(FineStartCoarse, 4))
    /\ symbols = SymbolsOf(CoarseTop(FineStartCoarse, 4))
    /\ uCoarse = <<>>
    /\ uMonth = 1
    /\ uFine = <<>>
    /\ uTime = 201
    /\ uRet = <<>>
    /\ uDid = "none"

NextFine == SelectFine \/ UConsume

SpecFine == InitFine /\ [][NextFine]_vars

(***************************************************************************)
(* Claims                                                                  *)
(***************************************************************************)

\* C1: when the history is non-empty, Update emits exactly one Up insight for
\* each of the min(n, numberOfStocks) securities of the history with the
\* lowest volatility: no emitted security has a strictly higher volatility
\* than a non-emitted one, whatever the host order and the history's symbols.
C1_LowestVolatilityEmitted ==
    (prog = "LowVol" /\ pc = "returned" /\ DOMAIN lvHist # {}) =>
        LET emitted == {lvInsights[i].Symbol : i \in 1..Len(lvInsights)}
        IN  /\ \A i \in 1..Len(lvInsights) : lvInsights[i].Direction = "Up"
            /\ Cardinality(emitted) = Len(lvInsights)
            /\ Len(lvInsights) = Min(Cardinality(DOMAIN lvHist), numberOfStocks)
            /\ emitted \subseteq DOMAIN lvHist
            /\ \A e \in emitted : \A o \in (DOMAIN lvHist) \ emitted :
                    lvHist[e] <= lvHist[o]

\* The return of a security that Update may consider is positive
C2_Increased(security) == security.Close > security.Open

\* C2: at hour 12 Update returns one insight for every active security with
\* data and a non-zero open: Down if its return over the hour increased, Up
\* if it decreased.
C2_OneInsightPerSecurity ==
    (prog = "Lunch" /\ pc = "returned" /\ lbHour = 12) =>
        LET eligible == {i \in 1..Len(lbActive) :
                            lbActive[i].HasData /\ lbActive[i].Open # 0}
        IN  /\ Len(lbInsights) = Cardinality(eligible)
            /\ \A i \in eligible : \E j \in 1..Len(lbInsights) :
                    /\ lbInsights[j].Symbol = lbActive[i].Symbol
                    /\ C2_Increased(lbActive[i]) => lbInsights[j].Direction = "Down"
                    /\ lbActive[i].Close < lbActive[i].Open
                            => lbInsights[j].Direction = "Up"

\* C3: Update emits an insight only at hour 12 and only for a security that
\* has data and a non-zero open; at any other hour it returns an empty list,
\* and no division by zero is performed, in every sequence of calls.
C3_InsightOnlyAtNoonWithOpen ==
    prog = "Lunch" =>
        /\ ~lbRaised
        /\ (pc = "returned" /\ lbHour # 12) => lbInsights = <<>>
        /\ \A j \in 1..Len(lbInsights) :
            /\ pc = "returned"
            /\ lbHour = 12
            /\ \E i \in 1..Len(lbActive) :
                /\ lbActive[i].Symbol = lbInsights[j].Symbol
                /\ lbActive[i].HasData
                /\ lbActive[i].Open # 0

\* C3 witness: at hour 12, a security with a zero open and one without data
\* are passed over and a later security receives the insight
C3_Witness ==
    /\ prog = "Lunch" /\ pc = "returned" /\ lbHour = 12
    /\ Len(lbActive) = 2 /\ Len(lbInsights) = 1
    /\ lbActive[1].HasData /\ lbActive[1].Open = 0
    /\ lbInsights[1].Symbol = lbActive[2].Symbol

\* C4: every Update call returns, for each pair in order, a Down insight for
\* the ultra-long symbol then one for the ultra-short symbol, each with a
\* 1-day period and magnitude 0: exactly 2 * |ETFgroups| insights; self.date
\* never changes.
C4_TwoDownInsightsPerPair ==
    prog = "ETF" =>
        /\ etfDate = DateMin
        /\ pc = "returned" =>
            /\ Len(etfInsights) = 2 * Len(ETFgroups)
            /\ \A i \in 1..Len(ETFgroups) :
                /\ etfInsights[2 * i - 1] =
                        [Symbol |-> ETFgroups[i].ultraLong, PeriodDays |-> 1,
                         Direction |-> "Down", Magnitude |-> 0]
                /\ etfInsights[2 * i] =
                        [Symbol |-> ETFgroups[i].ultraShort, PeriodDays |-> 1,
                         Direction |-> "Down", Magnitude |-> 0]

\* C4 witness: a later call, on a later day, of a model with several pairs
C4_Witness ==
    /\ prog = "ETF" /\ pc = "returned"
    /\ etfCalls >= 2 /\ etfDay >= 1
    /\ Len(ETFgroups) >= 2 /\ Len(etfInsights) = 2 * Len(ETFgroups)

\* The positions of the coarse argument that pass the three conditions
C5_Eligible ==
    {i \in 1..Len(uCoarse) :
        uCoarse[i].HasFundamentalData /\ uCoarse[i].Volume > 0 /\ uCoarse[i].Price > 0}

\* C5: when SelectCoarse recomputes, the returned symbols are exactly the
\* up-to-NumberOfSymbolsCoarse eligible elements with the highest dollar
\* volume, and dollarVolumeBySymbol maps exactly those symbols to their
\* dollar volume.
C5_CoarseTopByDollarVolume ==
    (prog = "Universe" /\ uDid = "recomputed") =>
        LET returned == Range(uRet)
        IN  /\ lastMonth = uMonth
            /\ symbols = uRet
            /\ Cardinality(returned) = Len(uRet)
            /\ Len(uRet) = Min(NumberOfSymbolsCoarse, Cardinality(C5_Eligible))
            /\ returned \subseteq {uCoarse[i].Symbol : i \in C5_Eligible}
            /\ \A i, j \in C5_Eligible :
                    (uCoarse[i].Symbol \in returned /\ uCoarse[j].Symbol \notin returned)
                        => uCoarse[i].DollarVolume >= uCoarse[j].DollarVolume
            /\ DOMAIN dollarVolumeBySymbol = returned
            /\ \A i \in C5_Eligible : uCoarse[i].Symbol \in returned =>
                    dollarVolumeBySymbol[uCoarse[i].Symbol] = uCoarse[i].DollarVolume

\* C5 witness: a recomputation in a later month that leaves an eligible
\* element out and passes over an element without volume
C5_Witness ==
    /\ prog = "Universe" /\ uDid = "recomputed" /\ uMonth = 2
    /\ Cardinality(C5_Eligible) > Len(uRet)
    /\ Len(uRet) = NumberOfSymbolsCoarse
    /\ \E i, j \in C5_Eligible : uCoarse[i].DollarVolume # uCoarse[j].DollarVolume

\* The fine element of a symbol of the fine argument
FineOf(symbol) == CHOOSE x \in Range(uFine) : x.Symbol = symbol

\* The sector-selected stocks of the last SelectFine call
C6_TopFine ==
    TopFine(SelectSeq(uFine, LAMBDA x : FineFilter(x, uTime)),
            NumberOfSymbolsFine, NumberOfSymbolsCoarse, dollarVolumeBySymbol)

\* The NumberOfSymbolsFine best-ranked of them by EV/EBITDA
C6_Subset == Range(Take(SortedByEVToEBITDA(C6_TopFine), NumberOfSymbolsFine))

\* C6: SelectFine returns the first NumberOfSymbolsInPortfolio, by ROIC rank,
\* of the NumberOfSymbolsFine sector-selected stocks best ranked by
\* EV/EBITDA: the list is ordered by ROIC, every returned stock is among the
\* top ranked by EV/EBITDA, and no stock of that subset left out has a
\* better ROIC rank than a returned one.
C6_RankedByEVThenROIC ==
    (prog = "Universe" /\ uDid = "fine") =>
        /\ Len(uRet) = Min(NumberOfSymbolsInPortfolio,
                           Min(NumberOfSymbolsFine, Len(C6_TopFine)))
        /\ \A k \in 1..(Len(uRet) - 1) :
                FineOf(uRet[k]).ROIC <= FineOf(uRet[k + 1]).ROIC
        /\ \A s \in Range(uRet) :
            /\ FineOf(s) \in Range(C6_TopFine)
            /\ Cardinality({y \in Range(C6_TopFine) :
                    y.EVToEBITDA > FineOf(s).EVToEBITDA}) < NumberOfSymbolsFine
            /\ \A y \in C6_Subset :
                    y.Symbol \notin Range(uRet) => FineOf(s).ROIC <= y.ROIC

\* C6 witness: four sector-selected stocks, one cut by the EV/EBITDA rank,
\* one of the subset left out, and the two returned differ in ROIC
C6_Witness ==
    /\ prog = "Universe" /\ uDid = "fine"
    /\ Len(C6_TopFine) = 4 /\ Len(uRet) = 2
    /\ FineOf(uRet[1]).ROIC < FineOf(uRet[2]).ROIC
    /\ \E y \in Range(C6_TopFine) : y \notin C6_Subset
    /\ \E y \in C6_Subset : y.Symbol \notin Range(uRet)

\* C7: every symbol SelectFine returns belongs to a fine element that is
\* headquartered in the USA, listed on NYS or NAS, had its IPO more than 180
\* days before algorithm.Time and has a market cap above 5e8; at most
\* NumberOfSymbolsInPortfolio symbols are returned, none twice.
C7_ReturnedPassQC500 ==
    (prog = "Universe" /\ uDid \in {"fine", "fine empty"}) =>
        /\ Len(uRet) <= NumberOfSymbolsInPortfolio
        /\ Cardinality(Range(uRet)) = Len(uRet)
        /\ \A s \in Range(uRet) : \E i \in 1..Len(uFine) :
            /\ uFine[i].Symbol = s
            /\ uFine[i].CountryId = "USA"
            /\ uFine[i].PrimaryExchangeID \in {"NYS", "NAS"}
            /\ uTime - uFine[i].IPODate > 180
            /\ uFine[i].BasicAverageShares * uFine[i].BasicEPS * uFine[i].PERatio
                    > 500000000

\* C7 witness: two symbols are returned from a fine list that also holds an
\* element listed 180 days ago and one with a market cap of exactly 5e8
C7_Witness ==
    /\ prog = "Universe" /\ uDid = "fine" /\ Len(uRet) = 2
    /\ \E i \in 1..Len(uFine) : uTime - uFine[i].IPODate = 180
    /\ \E i \in 1..Len(uFine) :
            uFine[i].BasicAverageShares * uFine[i].BasicEPS * uFine[i].PERatio
                = 500000000

\* C8: when History returns an empty result the callback skips the cycle:
\* LowVolatilitySelectionAlphaModel.Update returns an empty insight list, and
\* MagicFormulaAlphaModel.OnSecuritiesChanged returns having added no entry
\* to symbolDataBySymbol and registered no consolidator.
C8_EmptyHistorySkips ==
    [][(pc = "idle" /\ pc' = "returned") =>
        /\ (prog = "LowVol" /\ DOMAIN lvHist' = {}) =>
                (lvInsights' = <<>> /\ ~lvRaised')
        /\ (prog = "MagicAlpha" /\ DOMAIN alHistory' = {}) =>
                /\ ~alRaised'
                /\ DOMAIN symbolDataBySymbol' \subseteq DOMAIN symbolDataBySymbol
                /\ subscriptions' \subseteq subscriptions
                /\ resolved' = resolved]_vars

\* C8 witness: OnSecuritiesChanged returned from a call that added
\* securities, to a model already tracking some, with an empty history
C8_Witness ==
    /\ prog = "MagicAlpha" /\ pc = "returned"
    /\ alAdded # {} /\ DOMAIN alHistory = {}
    /\ DOMAIN symbolDataBySymbol # {}
    /\ alAdded \cap DOMAIN symbolDataBySymbol = {}

\* value >= the mean of the window
C9_AtOrAbove(value, window) == value * Len(window) >= SumSeq(window)

\* C9: Liquidate is called only on a slice where the position value of the
\* current slice and that of the previous processed slice lie on opposite
\* sides of the current SMA value.
C9_LiquidateOnlyOnCross ==
    (prog = "ShareClass" /\ scDid = "liquidate") =>
        LET n == Len(portfolio)
        IN  /\ n >= 2
            /\ C9_AtOrAbove(portfolio[n], scSma) # C9_AtOrAbove(portfolio[n - 1], scSma)

\* The consolidators of the tracked symbols
C10_Tracked(data) == {<<s, data[s].Consolidator>> : s \in DOMAIN data}

\* C10: after any sequence of OnSecuritiesChanged calls the registered
\* consolidators are exactly those of the symbols in symbolDataBySymbol, one
\* per symbol; an added security that is already tracked keeps its data, and
\* every removed security's entry is deleted, also when the history is empty.
C10_RegistrationsMatchTracked ==
    [][(pc = "idle" /\ pc' = "returned" /\ prog = "MagicAlpha") =>
        /\ subscriptions' = C10_Tracked(symbolDataBySymbol')
        /\ \A s \in DOMAIN symbolDataBySymbol' :
                Cardinality({c \in subscriptions' : c[1] = s}) = 1
        /\ \A s \in (DOMAIN symbolDataBySymbol) \cap (DOMAIN symbolDataBySymbol') :
                symbolDataBySymbol'[s] = symbolDataBySymbol[s]
        /\ alRemoved' \cap DOMAIN symbolDataBySymbol' = {}]_vars

\* C10 witness: a call that removes a tracked security and whose history
\* holds a symbol tracked since an earlier call
C10_Witness ==
    /\ prog = "MagicAlpha" /\ pc = "returned"
    /\ resolved > NumSymbols
    /\ alRemoved # {}
    /\ \E s, t \in DOMAIN alHistory :
        /\ symbolDataBySymbol[s].Consolidator = 1
        /\ symbolDataBySymbol[t].Consolidator = resolved

====
